---------------------------- MODULE Spec2Model ----------------------------
(***************************************************************************)
(* Lasso regularisation path driver, examples/cpp_sp/lasso_path.cpp.       *)
(*                                                                         *)
(* Numbers.  The element type T is modelled with exact arithmetic:         *)
(*   - matrix values val[j] are numerators over ValDen, b[i] are integers, *)
(*     so u[j] and lambda_max are numerators over ValDen;                  *)
(*   - entries of x and x_last are integers in units of 1/XDen, and TMax   *)
(*     stands for std::numeric_limits<T>::max();                           *)
(*   - std::log and std::exp are kept symbolic: a logarithm is a rational  *)
(*     multiple (num/den) of ln(arg/ValDen), or -inf, or NaN, and the      *)
(*     exponential of a finite one is the power (base/ValDen)^(num/den).   *)
(*     The IEEE special cases log(0) = -inf, (-inf)*0 = NaN,               *)
(*     exp(-inf) = 0 and NaN propagation are modelled as such.             *)
(***************************************************************************)
EXTENDS Integers, FiniteSets, Sequences, TLC

\* ------------------------------------------------------------------ bounds
\* Columns of the generated problems: n \in 1..MaxN.
MaxN == 2
\* Observations b[i] are drawn from 0..MaxB.
MaxB == 3
\* Length of the vectors the convergence test is applied to in ConvSpec.
MaxLen == 4

\* Rows and columns of the matrices lambda_max is computed for in LmaxSpec.
MaxDim == 2
\* Entries of those matrices.
MaxNnz == 2

\* ------------------------------------------------------- program constants
\* unsigned int nlambda = 100;
nlambda == 100
\* Denominator of matrix values (and so of u and lambda_max): 1.0 is ValDen.
ValDen == 2
\* Unit of the entries of x: 1.0 is XDen, so 1.0005 is XDen + 1.
XDen == 2000
\* std::numeric_limits<T>::max(), larger than any other entry of the model.
TMax == 1000000

VARIABLES
  pc,          \* position of LassoPath: start, loop, solve, test, copy, free, done
  m, n, nnz,   \* problem dimensions (nnz as returned by the generator)
  val, col_ind, row_ptr,   \* compressed-row matrix A
  b,           \* observations
  u,           \* A^T b
  lambda_max,
  f, g,        \* pogs_data.f (row descriptors), pogs_data.g (column descriptors)
  factors,     \* state of the solver's sparse factors: none, alloc, freed
  allocs,      \* number of AllocSparseFactors calls so far
  frees,       \* number of FreeSparseFactors calls so far
  i,           \* index of the outer path loop
  lambda,      \* penalty of the current step
  x, x_last, y,
  status,      \* value returned by the last Solve (discarded by the driver)
  solves,      \* number of Solve invocations so far
  nlog,        \* number of std::log evaluations so far
  firedAt,     \* step at which the convergence test held, -1 if it never did
  xOut, yOut,  \* what the last Solve left in x and y
  xPrevOut     \* what the Solve before the last one left in x

vars == <<pc, m, n, nnz, val, col_ind, row_ptr, b, u, lambda_max, f, g, factors,
          allocs, frees,
          i, lambda, x, x_last, y, status, solves, nlog, firedAt, xOut, yOut,
          xPrevOut>>

\* --------------------------------------------------------------- vectors
Size(v) == Cardinality(DOMAIN v)

Fill(size, e) == [k \in 0..(size - 1) |-> e]

\* std::abs
Abs(a) == IF a < 0 THEN -a ELSE a

\* std::max(a, c): (a < c) ? c : a
Max(a, c) == IF a < c THEN c ELSE a

\* ------------------------------------------------------ MaxDiff and Asum
RECURSIVE MaxDiffFrom(_, _, _, _)
MaxDiffFrom(v1, v2, k, max_diff) ==
  IF k < Size(v1)
    THEN MaxDiffFrom(v1, v2, k + 1, Max(max_diff, Abs(v1[k] - v2[k])))
    ELSE max_diff

\* MaxDiff with the std::abs left out.
RECURSIVE MaxDiffSignedFrom(_, _, _, _)
MaxDiffSignedFrom(v1, v2, k, max_diff) ==
  IF k < Size(v1)
    THEN MaxDiffSignedFrom(v1, v2, k + 1, Max(max_diff, v1[k] - v2[k]))
    ELSE max_diff

MaxDiffSigned(v1, v2) == MaxDiffSignedFrom(v1, v2, 0, 0)

MaxDiff(v1, v2) == MaxDiffFrom(v1, v2, 0, 0)

RECURSIVE AsumFrom(_, _, _)
AsumFrom(v, k, asum) ==
  IF k < Size(v) THEN AsumFrom(v, k + 1, asum + Abs(v[k])) ELSE asum

\* Asum with the loop started at index 1.
AsumSkipFirst(v) == AsumFrom(v, 1, 0)

Asum(v) == AsumFrom(v, 0, 0)

\* The test with <= in place of <.
ConvergedLe(xx, xl) == 1000 * MaxDiff(xx, xl) <= Asum(xx)

\* MaxDiff(&x, &x_last) < 1e-3 * Asum(&x), both sides scaled by 1000
Converged(xx, xl) == 1000 * MaxDiff(xx, xl) < Asum(xx)

\* ------------------------------------------------- logarithms and powers
NaNLog == [k |-> "nan", arg |-> 0, num |-> 0, den |-> 1]
NegInf == [k |-> "ninf", arg |-> 0, num |-> 0, den |-> 1]

\* std::log(v) for v >= 0
Log(v) ==
  IF v = 0 THEN NegInf ELSE [k |-> "fin", arg |-> v, num |-> 1, den |-> 1]

\* l * c for an unsigned integer c converted to T
MulInt(l, c) ==
  CASE l.k = "nan" -> NaNLog
    [] l.k = "ninf" -> IF c = 0 THEN NaNLog ELSE NegInf
    [] OTHER -> [l EXCEPT !.num = @ * c]

\* static_cast<T>(1e-2) * l
MulHundredth(l) ==
  CASE l.k = "nan" -> NaNLog
    [] l.k = "ninf" -> NegInf
    [] OTHER -> [l EXCEPT !.den = @ * 100]

\* l1 + l2 (no +inf arises)
AddLog(l1, l2) ==
  CASE l1.k = "nan" \/ l2.k = "nan" -> NaNLog
    [] l1.k = "ninf" \/ l2.k = "ninf" -> NegInf
    [] OTHER -> [k |-> "fin", arg |-> l1.arg,
                 num |-> l1.num * l2.den + l2.num * l1.den,
                 den |-> l1.den * l2.den]

\* l / c for an unsigned integer c > 0 converted to T
DivInt(l, c) ==
  CASE l.k = "nan" -> NaNLog
    [] l.k = "ninf" -> NegInf
    [] OTHER -> [l EXCEPT !.den = @ * c]

NaN == [k |-> "nan", base |-> 0, num |-> 0, den |-> 1]
Zero == [k |-> "zero", base |-> 0, num |-> 0, den |-> 1]

\* std::exp(l)
Exp(l) ==
  CASE l.k = "nan" -> NaN
    [] l.k = "ninf" -> Zero
    [] OTHER -> [k |-> "pow", base |-> l.arg, num |-> l.num, den |-> l.den]

\* T lambda = std::exp((std::log(lambda_max) * (nlambda - 1 - i) +
\*     static_cast<T>(1e-2) * std::log(lambda_max) * i) / (nlambda - 1));
Lambda(lmax, step) ==
  Exp(DivInt(AddLog(MulInt(Log(lmax), nlambda - 1 - step),
                    MulInt(MulHundredth(Log(lmax)), step)),
             nlambda - 1))

\* ----------------------------------------------------------- descriptors
\* The value the FunctionObj constructor gives to a field the caller omits.
Default == [k |-> "default", base |-> 0, num |-> 0, den |-> 1]

\* pogs_data.f.emplace_back(kSquare, static_cast<T>(1), b[i]);
RowDescriptor(bi) == [h |-> "kSquare", a |-> 1, b |-> bi, c |-> Default]

\* pogs_data.g.emplace_back(kAbs);
ColDescriptor == [h |-> "kAbs", a |-> 1, b |-> 0, c |-> Default]

\* ------------------------------------------------------------ lambda_max
\* for i < m: for j in [row_ptr[i], row_ptr[i+1]): u[col_ind[j]] += val[j]*b[i]
RECURSIVE AccumU(_, _, _, _, _, _, _, _)
AccumU(uu, ii, jj, mm, rp, ci, vv, bb) ==
  IF ii >= mm THEN uu
  ELSE IF jj < rp[ii + 1]
    THEN AccumU([uu EXCEPT ![ci[jj]] = @ + vv[jj] * bb[ii]],
                ii, jj + 1, mm, rp, ci, vv, bb)
    ELSE AccumU(uu, ii + 1, rp[ii + 1], mm, rp, ci, vv, bb)

ComputeU(mm, nn, rp, ci, vv, bb) ==
  AccumU(Fill(nn, 0), 0, rp[0], mm, rp, ci, vv, bb)

\* lambda_max = max(lambda_max, |u[i]|) over i < n, from 0
RECURSIVE LambdaMaxFrom(_, _, _, _)
LambdaMaxFrom(uu, nn, k, lmax) ==
  IF k < nn THEN LambdaMaxFrom(uu, nn, k + 1, Max(lmax, Abs(uu[k]))) ELSE lmax

\* lambda_max with the std::abs left out.
RECURSIVE LambdaMaxSignedFrom(_, _, _, _)
LambdaMaxSignedFrom(uu, nn, k, lmax) ==
  IF k < nn THEN LambdaMaxSignedFrom(uu, nn, k + 1, Max(lmax, uu[k])) ELSE lmax

LambdaMaxSigned(uu, nn) == LambdaMaxSignedFrom(uu, nn, 0, 0)

LambdaMax(uu, nn) == LambdaMaxFrom(uu, nn, 0, 0)

\* ------------------------------------------------------ generated inputs
\* Compressed-row form of a dense m x n table d (0 = no entry).
NonZeros(d, mm, nn) ==
  {p \in (0..(mm - 1)) \X (0..(nn - 1)) : d[p[1]][p[2]] # 0}

Before(p, q) == p[1] < q[1] \/ (p[1] = q[1] /\ p[2] < q[2])

Rank(nz, p) == Cardinality({q \in nz : Before(q, p)})

ToCSR(d, mm, nn) ==
  LET nz == NonZeros(d, mm, nn)
      at(k) == CHOOSE p \in nz : Rank(nz, p) = k
  IN [nnz |-> Cardinality(nz),
      row_ptr |-> [r \in 0..mm |-> Cardinality({q \in nz : q[1] < r})],
      col_ind |-> [k \in 0..(Cardinality(nz) - 1) |-> at(k)[2]],
      val |-> [k \in 0..(Cardinality(nz) - 1) |-> d[at(k)[1]][at(k)[2]]]]

\* One-row tables whose entries, where present, have the value 1/ValDen.
Tables(nn) == [0..0 -> [0..(nn - 1) -> {0, 1}]]

\* ------------------------------------------------------------- the solver
\* What Solve may leave in x: a value repeated on a prefix, zero elsewhere.
XOut(nn) ==
  {[k \in 0..(nn - 1) |-> IF k < p THEN e ELSE 0] :
     p \in 0..nn, e \in {XDen, TMax}}

\* y = A x for compressed-row A
MatVec(mm, rp, ci, vv, xx) ==
  LET RECURSIVE RowSum(_, _, _)
      RowSum(jj, hi, acc) ==
        IF jj < hi THEN RowSum(jj + 1, hi, acc + vv[jj] * xx[ci[jj]]) ELSE acc
  IN [r \in 0..(mm - 1) |-> RowSum(rp[r], rp[r + 1], 0)]

\* ------------------------------------------------------------------- Init
\* State at entry of the lambda_max computation: generated A and b, buffers
\* as constructed (x, y zero; x_last filled with the largest value).
Init ==
  /\ pc = "start"
  /\ m = 1
  /\ n \in 1..MaxN
  /\ \E d \in Tables(n) :
       LET A == ToCSR(d, m, n)
       IN /\ nnz = A.nnz
          /\ row_ptr = A.row_ptr
          /\ col_ind = A.col_ind
          /\ val = A.val
  /\ b \in [0..(m - 1) -> 0..MaxB]
  /\ u = Fill(n, 0)
  /\ lambda_max = 0
  /\ f = << >>
  /\ g = << >>
  /\ factors = "none"
  /\ allocs = 0
  /\ frees = 0
  /\ i = 0
  /\ lambda = NaN
  /\ x = Fill(n, 0)
  /\ x_last = Fill(n, TMax)
  /\ y = Fill(m, 0)
  /\ status = 0
  /\ solves = 0
  /\ nlog = 0
  /\ firedAt = -1
  /\ xOut = Fill(n, 0)
  /\ yOut = Fill(m, 0)
  /\ xPrevOut = Fill(n, 0)

\* ---------------------------------------------------------------- actions
\* The construction with one column descriptor per row.
SetupSwappedCounts ==
  /\ pc = "start"
  /\ u' = ComputeU(m, n, row_ptr, col_ind, val, b)
  /\ lambda_max' = LambdaMax(u', n)
  /\ f' = [r \in 0..(m - 1) |-> RowDescriptor(b[r])]
  /\ g' = [c \in 0..(m - 1) |-> ColDescriptor]
  /\ factors' = "alloc"
  /\ allocs' = allocs + 1
  /\ i' = 0
  /\ pc' = "loop"
  /\ UNCHANGED <<m, n, nnz, val, col_ind, row_ptr, b, lambda, x, x_last, y,
                 frees, status, solves, nlog, firedAt, xOut, yOut, xPrevOut>>

\* Lines 57-83: u = A^T b, lambda_max, descriptors, AllocSparseFactors.
Setup ==
  /\ pc = "start"
  /\ u' = ComputeU(m, n, row_ptr, col_ind, val, b)
  /\ lambda_max' = LambdaMax(u', n)
  /\ f' = [r \in 0..(m - 1) |-> RowDescriptor(b[r])]
  /\ g' = [c \in 0..(n - 1) |-> ColDescriptor]
  /\ factors' = "alloc"
  /\ allocs' = allocs + 1
  /\ i' = 0
  /\ pc' = "loop"
  /\ UNCHANGED <<m, n, nnz, val, col_ind, row_ptr, b, lambda, x, x_last, y,
                 frees, status, solves, nlog, firedAt, xOut, yOut, xPrevOut>>

\* The scale loop stopping one column early.
RECURSIVE SetScalesSkipLast(_, _, _, _)
SetScalesSkipLast(gg, nn, inner, lam) ==
  IF inner < nn - 1
    THEN SetScalesSkipLast([gg EXCEPT ![inner].c = lam], nn, inner + 1, lam)
    ELSE gg

\* The scale loop replacing each descriptor by a default-kind one of scale lam.
RECURSIVE SetScalesRebuild(_, _, _, _)
SetScalesRebuild(gg, nn, inner, lam) ==
  IF inner < nn
    THEN SetScalesRebuild(
           [gg EXCEPT ![inner] = [h |-> "kZero", a |-> 1, b |-> 0, c |-> lam]],
           nn, inner + 1, lam)
    ELSE gg

\* for (unsigned int i = 0; i < n; ++i) pogs_data.g[i].c = lambda;
\* The loop variable is a new i in the inner scope.
RECURSIVE SetScales(_, _, _, _)
SetScales(gg, nn, inner, lam) ==
  IF inner < nn
    THEN SetScales([gg EXCEPT ![inner].c = lam], nn, inner + 1, lam)
    ELSE gg

\* The step with lambda_max re-derived from what the solver left in x.
StepScaleRederived ==
  /\ pc = "loop"
  /\ i < nlambda
  /\ lambda' = Lambda(Max(lambda_max, LambdaMax(x, n)), i)
  /\ nlog' = nlog + 2
  /\ g' = SetScales(g, n, 0, lambda')
  /\ pc' = "solve"
  /\ UNCHANGED <<m, n, nnz, val, col_ind, row_ptr, b, u, lambda_max, f, factors,
                 allocs, frees, i, x, x_last, y, status, solves, firedAt, xOut,
                 yOut, xPrevOut>>

\* Lines 84-90: loop test passed, lambda of the step, scale of every column.
StepScale ==
  /\ pc = "loop"
  /\ i < nlambda
  /\ lambda' = Lambda(lambda_max, i)
  /\ nlog' = nlog + 2
  /\ g' = SetScales(g, n, 0, lambda')
  /\ pc' = "solve"
  /\ UNCHANGED <<m, n, nnz, val, col_ind, row_ptr, b, u, lambda_max, f, factors, allocs, frees,
                 i, x, x_last, y, status, solves, firedAt, xOut, yOut, xPrevOut>>

\* Line 92: Solve(&pogs_data) writes x and y in place and returns a status.
Solve ==
  /\ pc = "solve"
  /\ x' \in XOut(n)
  /\ y' = MatVec(m, row_ptr, col_ind, val, x')
  /\ status' \in {0, 1}
  /\ solves' = solves + 1
  /\ xPrevOut' = xOut
  /\ xOut' = x'
  /\ yOut' = y'
  /\ pc' = "test"
  /\ UNCHANGED <<m, n, nnz, val, col_ind, row_ptr, b, u, lambda_max, f, g,
                 factors, allocs, frees, i, lambda, x_last, nlog, firedAt>>

\* The test without its break.
TestNoBreak ==
  /\ pc = "test"
  /\ firedAt' = IF Converged(x, x_last) THEN i ELSE firedAt
  /\ pc' = "copy"
  /\ UNCHANGED <<m, n, nnz, val, col_ind, row_ptr, b, u, lambda_max, f, g,
                 factors, allocs, frees, i, lambda, x, x_last, y, status, solves, nlog, xOut,
                 yOut, xPrevOut>>

\* The test leaving the loop when the solver reported a failure.
TestAbortOnFailure ==
  /\ pc = "test"
  /\ IF Converged(x, x_last)
       THEN /\ firedAt' = i
            /\ pc' = "free"
       ELSE /\ firedAt' = firedAt
            /\ pc' = IF status # 0 THEN "free" ELSE "copy"
  /\ UNCHANGED <<m, n, nnz, val, col_ind, row_ptr, b, u, lambda_max, f, g,
                 factors, allocs, frees, i, lambda, x, x_last, y, status,
                 solves, nlog, xOut, yOut, xPrevOut>>

\* The test returning from the function in place of the break.
TestReturnOnBreak ==
  /\ pc = "test"
  /\ IF Converged(x, x_last)
       THEN /\ firedAt' = i
            /\ pc' = "done"
       ELSE /\ firedAt' = firedAt
            /\ pc' = "copy"
  /\ UNCHANGED <<m, n, nnz, val, col_ind, row_ptr, b, u, lambda_max, f, g,
                 factors, allocs, frees, i, lambda, x, x_last, y, status,
                 solves, nlog, xOut, yOut, xPrevOut>>

\* Lines 94-95: if (MaxDiff(&x, &x_last) < 1e-3 * Asum(&x)) break;
Test ==
  /\ pc = "test"
  /\ IF Converged(x, x_last)
       THEN /\ firedAt' = i
            /\ pc' = "free"
       ELSE /\ firedAt' = firedAt
            /\ pc' = "copy"
  /\ UNCHANGED <<m, n, nnz, val, col_ind, row_ptr, b, u, lambda_max, f, g,
                 factors, allocs, frees, i, lambda, x, x_last, y, status, solves, nlog, xOut,
                 yOut, xPrevOut>>

\* The step without its snapshot.
CopyLastNoSnapshot ==
  /\ pc = "copy"
  /\ i' = i + 1
  /\ pc' = "loop"
  /\ UNCHANGED <<m, n, nnz, val, col_ind, row_ptr, b, u, lambda_max, f, g,
                 factors, allocs, frees, lambda, x, x_last, y, status, solves, nlog, firedAt,
                 xOut, yOut, xPrevOut>>

\* The snapshot with its sides exchanged: x = x_last.
CopyLastSwapped ==
  /\ pc = "copy"
  /\ x' = x_last
  /\ i' = i + 1
  /\ pc' = "loop"
  /\ UNCHANGED <<m, n, nnz, val, col_ind, row_ptr, b, u, lambda_max, f, g,
                 factors, allocs, frees, lambda, x_last, y, status, solves, nlog, firedAt,
                 xOut, yOut, xPrevOut>>

\* The step advancing the index by two.
CopyLastSkipsStep ==
  /\ pc = "copy"
  /\ x_last' = x
  /\ i' = i + 2
  /\ pc' = "loop"
  /\ UNCHANGED <<m, n, nnz, val, col_ind, row_ptr, b, u, lambda_max, f, g,
                 factors, allocs, frees, lambda, x, y, status, solves, nlog,
                 firedAt, xOut, yOut, xPrevOut>>

\* Line 96 and the loop increment: x_last = x; ++i
CopyLast ==
  /\ pc = "copy"
  /\ x_last' = x
  /\ i' = i + 1
  /\ pc' = "loop"
  /\ UNCHANGED <<m, n, nnz, val, col_ind, row_ptr, b, u, lambda_max, f, g,
                 factors, allocs, frees, lambda, x, y, status, solves, nlog, firedAt, xOut,
                 yOut, xPrevOut>>

\* The exit taken only once the index has passed nlambda.
LoopExitOffByOne ==
  /\ pc = "loop"
  /\ i > nlambda
  /\ pc' = "free"
  /\ UNCHANGED <<m, n, nnz, val, col_ind, row_ptr, b, u, lambda_max, f, g,
                 factors, allocs, frees, i, lambda, x, x_last, y, status,
                 solves, nlog, firedAt, xOut, yOut, xPrevOut>>

\* Line 84, loop test failed: the schedule is exhausted.
LoopExit ==
  /\ pc = "loop"
  /\ ~(i < nlambda)
  /\ pc' = "free"
  /\ UNCHANGED <<m, n, nnz, val, col_ind, row_ptr, b, u, lambda_max, f, g,
                 factors, allocs, frees, i, lambda, x, x_last, y, status, solves, nlog,
                 firedAt, xOut, yOut, xPrevOut>>

\* Lines 98-100: FreeSparseFactors(&pogs_data); return.
Free ==
  /\ pc = "free"
  /\ factors' = "freed"
  /\ frees' = frees + 1
  /\ pc' = "done"
  /\ UNCHANGED <<m, n, nnz, val, col_ind, row_ptr, b, u, lambda_max, f, g, i,
                 allocs,
                 lambda, x, x_last, y, status, solves, nlog, firedAt, xOut,
                 yOut, xPrevOut>>

Next == Setup \/ StepScale \/ Solve \/ Test \/ CopyLast \/ LoopExit \/ Free

Spec == Init /\ [][Next]_vars

\* The driver is one sequential function and every Solve returns: a step that
\* can be taken is eventually taken.
FairSpec == Init /\ [][Next]_vars /\ WF_vars(Next)

\* ------------------------------------------- the lambda_max computation on its own
\* Tables of up to MaxDim x MaxDim with at most MaxNnz entries, of values
\* -1/2, 2 and 3, and observations in {-1, 0, 1}.
LmaxVals == {-1, 2 * ValDen, 3 * ValDen}

LmaxTables(mm, nn) ==
  {d \in [0..(mm - 1) -> [0..(nn - 1) -> LmaxVals \cup {0}]] :
     Cardinality(NonZeros(d, mm, nn)) <= MaxNnz}

InitLmax ==
  /\ pc = "start"
  /\ m \in 1..MaxDim
  /\ n \in 1..MaxDim
  /\ \E d \in LmaxTables(m, n) :
       LET A == ToCSR(d, m, n)
       IN /\ nnz = A.nnz
          /\ row_ptr = A.row_ptr
          /\ col_ind = A.col_ind
          /\ val = A.val
  /\ b \in [0..(m - 1) -> {-1, 0, 1}]
  /\ u = Fill(n, 0)
  /\ lambda_max = 0
  /\ f = << >>
  /\ g = << >>
  /\ factors = "none"
  /\ allocs = 0
  /\ frees = 0
  /\ i = 0
  /\ lambda = NaN
  /\ x = Fill(n, 0)
  /\ x_last = Fill(n, TMax)
  /\ y = Fill(m, 0)
  /\ status = 0
  /\ solves = 0
  /\ nlog = 0
  /\ firedAt = -1
  /\ xOut = Fill(n, 0)
  /\ yOut = Fill(m, 0)
  /\ xPrevOut = Fill(n, 0)

NextLmax == Setup

LmaxSpec == InitLmax /\ [][NextLmax]_vars

\* ------------------------------------------ the convergence test on its own
\* Entries of the current and of the previous iterate handed to the test.
XConv == {-XDen, 0, XDen}
XLastConv == {0, XDen, XDen + 1}

\* The driver at the convergence test of step 1 of a problem whose matrix has
\* no entry, for every pair of iterates over XConv and XLastConv.
InitConv ==
  /\ pc = "test"
  /\ m = 1
  /\ n \in 1..MaxLen
  /\ nnz = 0
  /\ row_ptr = [r \in 0..1 |-> 0]
  /\ col_ind = << >>
  /\ val = << >>
  /\ b = Fill(1, 0)
  /\ u = Fill(n, 0)
  /\ lambda_max = 0
  /\ f = [r \in 0..0 |-> RowDescriptor(0)]
  /\ lambda = Lambda(0, 1)
  /\ g = SetScales(Fill(n, ColDescriptor), n, 0, lambda)
  /\ factors = "alloc"
  /\ allocs = 1
  /\ frees = 0
  /\ i = 1
  /\ x \in [0..(n - 1) -> XConv]
  /\ x_last \in [0..(n - 1) -> XLastConv]
  /\ y = Fill(1, 0)
  /\ status = 0
  /\ solves = 2
  /\ nlog = 4
  /\ firedAt = -1
  /\ xOut = x
  /\ yOut = y
  /\ xPrevOut = x_last

NextConv == Test \/ CopyLast

ConvSpec == InitConv /\ [][NextConv]_vars

\* ------------------------------------------------ reading lambda as a real
\* (num/den) of p below that of q
ExpLess(p, q) == p.num * q.den < q.num * p.den

\* p < q for two values of the schedule of one lambda_max; false on NaN
LamLess(p, q) ==
  CASE p.k = "nan" \/ q.k = "nan" -> FALSE
    [] p.k = "zero" -> q.k = "pow"
    [] q.k = "zero" -> FALSE
    [] OTHER -> \/ p.base > ValDen /\ ExpLess(p, q)
                \/ p.base < ValDen /\ ExpLess(q, p)

\* Whether p can equal the rational rn/rd.  A power with exponent 1 is its
\* base, a power of 1 or with exponent 0 is 1, and any other power with
\* exponent in (0,1) lies strictly between 1 and its base: the answer is
\* FALSE only where that excludes rn/rd.
LamMayEqual(p, rn, rd) ==
  CASE p.k = "nan" -> FALSE
    [] p.k = "zero" -> rn = 0
    [] p.num = p.den -> p.base * rd = rn * ValDen
    [] p.base = ValDen \/ p.num = 0 -> rn = rd
    [] p.base > ValDen -> rd < rn /\ rn * ValDen < p.base * rd
    [] OTHER -> rn < rd /\ p.base * rd < rn * ValDen

\* ----------------------------------------------------------------- claims
\* C1: for every lambda_max > 0 the schedule is strictly decreasing: the
\* penalty computed at step i >= 1 is below the one computed at step i-1.
C1_StrictlyDecreasing ==
  [][(pc = "loop" /\ pc' = "solve" /\ lambda_max > 0 /\ i >= 1)
       => LamLess(lambda', lambda)]_vars

\* C2: for lambda_max > 0 the penalty of step 0 is lambda_max and the penalty
\* of step nlambda-1 is lambda_max / 100.
C2_Endpoints ==
  (pc = "solve" /\ lambda_max > 0) =>
    /\ i = 0 => LamMayEqual(lambda, lambda_max, ValDen)
    /\ i = nlambda - 1 => LamMayEqual(lambda, lambda_max, 100 * ValDen)

\* C3: once lambda_max is known to be 0 the driver evaluates no logarithm,
\* never invokes the solver and leaves x = 0.
C3_ZeroShortCircuit ==
  (pc # "start" /\ lambda_max = 0) =>
    /\ nlog = 0
    /\ solves = 0
    /\ x = Fill(n, 0)

\* The largest of the |xx[j] - xl[j]|, as a property of the set of differences.
MaxOfDiffs(xx, xl) ==
  LET D == {IF xx[j] >= xl[j] THEN xx[j] - xl[j] ELSE xl[j] - xx[j] :
              j \in DOMAIN xx}
  IN CHOOSE d \in D : \A e \in D : e <= d

\* The sum of the |xx[j]|, index set by index set.
RECURSIVE SumOfAbs(_, _)
SumOfAbs(xx, S) ==
  IF S = {} THEN 0
  ELSE LET j == CHOOSE k \in S : TRUE
       IN (IF xx[j] >= 0 THEN xx[j] ELSE 0 - xx[j]) + SumOfAbs(xx, S \ {j})

StopRule(xx, xl) == 1000 * MaxOfDiffs(xx, xl) < SumOfAbs(xx, DOMAIN xx)

Ones4 == [j \in 0..3 |-> XDen]
Ones4Prev == [j \in 0..3 |-> IF j = 3 THEN XDen + 1 ELSE XDen]
Zeros3 == [j \in 0..2 |-> 0]

\* C4: the test answers stop (the loop is left by break) exactly when
\* max_j |x[j] - x_last[j]| < 1e-3 * sum_j |x[j]|, and it answers stop on
\* x = [1,1,1,1], x_prev = [1,1,1,1.0005].
C4_StopExactlyWhen ==
  /\ pc = "copy" => ~StopRule(x, x_last)
  /\ (pc = "free" /\ i < nlambda) => StopRule(x, x_last)
  /\ (pc \in {"copy", "free"} /\ x = Ones4 /\ x_last = Ones4Prev) => pc = "free"

C4_Witness ==
  pc = "free" /\ firedAt = i /\ x = Ones4 /\ x_last = Ones4Prev

\* C5 as stated: on x = [0,0,0], x_prev = [0,0,0] the test answers stop.
C5_ZeroStops ==
  (pc \in {"copy", "free"} /\ x = Zeros3 /\ x_last = Zeros3) => pc = "free"

\* C5 as amended: on x = [0,0,0], x_prev = [0,0,0] the test answers continue
\* (0 < 0 is false), and the driver goes on to the snapshot.
C5_ZeroContinues ==
  (pc \in {"copy", "free"} /\ x = Zeros3 /\ x_last = Zeros3) => pc = "copy"

C5_Witness ==
  pc = "copy" /\ firedAt = -1 /\ x = Zeros3 /\ x_last = Zeros3

\* C6: for lambda_max > 0 the test of step 0 answers continue whatever the
\* solver left in x.
C6_NeverStopsAtStepZero ==
  (pc \in {"copy", "free"} /\ solves = 1 /\ lambda_max > 0) => pc = "copy"

\* C7: at most nlambda solver invocations; once the test has held at step k
\* the run is over with k+1 of them; and at the end there are fewer than
\* nlambda exactly when the test held at a step before the last one.
C7_SolveCount ==
  /\ solves <= nlambda
  /\ firedAt >= 0 => (pc \in {"free", "done"} /\ solves = firedAt + 1)
  /\ pc = "done" =>
       (solves < nlambda <=> (firedAt >= 0 /\ firedAt < nlambda - 1))

C7_Witness ==
  pc = "done" /\ solves > 1 /\ solves < nlambda /\ firedAt = solves - 1

\* C8: when the test of a step i >= 1 is about to be evaluated, x_last is
\* what the solver produced at step i-1 and x what it produced at step i.
C8_SnapshotIsPrevious ==
  (pc = "test" /\ i >= 1) => (x_last = xPrevOut /\ x = xOut)

C8_Witness ==
  pc = "test" /\ i >= 1 /\ x_last = xPrevOut /\ x # x_last /\ x_last # Fill(n, 0)

\* C9: from the return of a solver invocation on, and so at the next
\* invocation, x and y are what that invocation left.
C9_WarmStart ==
  solves >= 1 => (x = xOut /\ y = yOut)

C9_Witness ==
  pc = "solve" /\ solves >= 1 /\ x = xOut /\ y = yOut
    /\ x # Fill(n, 0) /\ y # Fill(m, 0)

\* C10: at every solver invocation the outer index is the number of solves
\* completed, lambda is the schedule's value for that step, and the scale of
\* every column descriptor is that lambda.
C10_ScalesAreLambda ==
  pc = "solve" =>
    /\ i = solves
    /\ lambda = Lambda(lambda_max, solves)
    /\ \A c \in 0..(n - 1) : g[c].c = lambda

C10_Witness ==
  pc = "solve" /\ i >= 1 /\ n >= 2 /\ lambda.k = "pow"
    /\ \A c \in 0..(n - 1) : g[c].c = lambda

\* C11: at every solver invocation the row descriptors are (kSquare, 1, b[r])
\* and every column descriptor has the kind and offset it was built with, and
\* no step of the driver changes the matrix, b or the dimensions.
C11_OnlyScaleMutated ==
  /\ [](pc = "solve" =>
          /\ f = [r \in 0..(m - 1) |->
                    [h |-> "kSquare", a |-> 1, b |-> b[r], c |-> Default]]
          /\ \A c \in 0..(n - 1) :
               g[c].h = "kAbs" /\ g[c].a = 1 /\ g[c].b = 0)
  /\ [][/\ val' = val /\ col_ind' = col_ind /\ row_ptr' = row_ptr
        /\ nnz' = nnz /\ m' = m /\ n' = n /\ b' = b
        /\ (pc # "start" => f' = f)]_vars

C11_Witness ==
  pc = "solve" /\ i >= 1 /\ nnz >= 1 /\ b[0] # 0 /\ n >= 2
    /\ g[0].c = lambda /\ g[0].h = "kAbs" /\ f[0].b = b[0]

\* C12: after a solver invocation that reported a failure the solver has been
\* invoked exactly once for the step, and the test decides as it does after a
\* success: continue unless the stop rule holds, break only if it holds.
C12_FailureIsIgnored ==
  status # 0 =>
    /\ pc \in {"test", "copy"} => solves = i + 1
    /\ pc \in {"loop", "solve"} => solves = i
    /\ pc = "copy" => ~StopRule(x, x_last)
    /\ (pc = "free" /\ i < nlambda) => (StopRule(x, x_last) /\ solves = i + 1)

C12_Witness ==
  pc = "solve" /\ status # 0 /\ i >= 1 /\ solves = i /\ x_last = xOut

\* The value of the schedule at step k as a closed form of lmax, k and
\* nlambda: lmax^((100 (nlambda-1-k) + k) / (100 (nlambda-1))) for lmax > 0;
\* for lmax = 0 NaN at the two end steps and 0 between them.
ScheduleAt(lmax, k) ==
  IF lmax > 0
    THEN [k |-> "pow", base |-> lmax,
          num |-> 100 * (nlambda - 1 - k) + k, den |-> 100 * (nlambda - 1)]
    ELSE IF k = 0 \/ k = nlambda - 1 THEN NaN ELSE Zero

\* Same kind, same base and equal exponents
LamSame(p, q) ==
  p.k = q.k /\ p.base = q.base /\ p.num * q.den = q.num * p.den

\* C13: the lambda in use at step i is the closed form of i, lambda_max and
\* nlambda, whatever x, y and status the solver returned at this and at
\* earlier steps: two runs on the same A and b use the same lambda_i.
C13_LambdaIgnoresSolver ==
  pc \in {"solve", "test", "copy"} => LamSame(lambda, ScheduleAt(lambda_max, i))

C13_Witness ==
  pc = "test" /\ i >= 2 /\ lambda_max > 0 /\ status # 0
    /\ xOut # xPrevOut /\ xOut # Fill(n, 0)
    /\ LamSame(lambda, ScheduleAt(lambda_max, i))

\* C14: the index moves only by the increment that follows a test answering
\* continue, one at a time, and the driver's positions follow one another in
\* the order scale, solve, test, snapshot: a step's scale update starts after
\* exactly as many solves as its index, none of them followed by a stop.
C14_Sequential ==
  [][/\ pc = "copy" => (i' = i + 1 /\ pc' = "loop")
     /\ pc # "copy" => i' = i
     /\ pc' = "loop" => pc \in {"start", "copy"}
     /\ pc' = "solve" => (pc = "loop" /\ firedAt = -1 /\ solves = i)
     /\ pc' = "test" => (pc = "solve" /\ solves' = i + 1)
     /\ pc' = "copy" => (pc = "test" /\ firedAt' = -1)]_vars

C14_Witness ==
  pc = "solve" /\ i = 2 /\ solves = 2 /\ firedAt = -1

\* The loop was left by break / by the loop test failing.
PathConverged == firedAt >= 0 /\ i < nlambda
PathExhausted == firedAt = -1 /\ i = nlambda

\* C15: every run reaches the end of LassoPath, and there exactly one of
\* Converged and Exhausted holds.
C15_Terminates ==
  /\ <>(pc = "done")
  /\ [](pc = "done" => (PathConverged /\ ~PathExhausted)
                         \/ (PathExhausted /\ ~PathConverged))

C15_Witness ==
  pc = "done" /\ PathExhausted /\ solves = nlambda

\* The row of the k-th stored entry
RowOf(k) == CHOOSE r \in 0..(m - 1) : row_ptr[r] <= k /\ k < row_ptr[r + 1]

RECURSIVE SumEntries(_)
SumEntries(K) ==
  IF K = {} THEN 0
  ELSE LET k == CHOOSE e \in K : TRUE
       IN val[k] * b[RowOf(k)] + SumEntries(K \ {k})

\* u[j]: the sum of v * b[r] over the stored entries (r, j, v)
ColSum(j) == SumEntries({k \in 0..(nnz - 1) : col_ind[k] = j})

Magnitude(a) == IF a >= 0 THEN a ELSE 0 - a

\* C16: after the computation u[j] is the sum of v * b[r] over the entries of
\* column j and lambda_max is the largest |u[j]|; it is 3 for
\* A = [[2,0],[0,3]], b = [1,1], and 0 when b is zero or A has no entry.
C16_LambdaMax ==
  pc = "loop" =>
    /\ \A j \in 0..(n - 1) : u[j] = ColSum(j)
    /\ \A j \in 0..(n - 1) : Magnitude(ColSum(j)) <= lambda_max
    /\ \E j \in 0..(n - 1) : Magnitude(ColSum(j)) = lambda_max
    /\ (m = 2 /\ n = 2 /\ row_ptr = [r \in 0..2 |-> r]
          /\ col_ind = [k \in 0..1 |-> k]
          /\ val = [k \in 0..1 |-> (k + 2) * ValDen]
          /\ b = [r \in 0..1 |-> 1]) => lambda_max = 3 * ValDen
    /\ (nnz = 0 \/ \A r \in 0..(m - 1) : b[r] = 0) => lambda_max = 0

C16_Witness ==
  pc = "loop" /\ m = 2 /\ n = 2 /\ row_ptr = [r \in 0..2 |-> r]
    /\ col_ind = [k \in 0..1 |-> k] /\ val = [k \in 0..1 |-> (k + 2) * ValDen]
    /\ b = [r \in 0..1 |-> 1] /\ lambda_max = 3 * ValDen

\* A vector with the entries at indices a and c exchanged.  Every reordering
\* of the indices is a composition of such exchanges, and the vectors handed
\* to the test are closed under them.
Swap(v, a, c) ==
  [k \in DOMAIN v |-> IF k = a THEN v[c] ELSE IF k = c THEN v[a] ELSE v[k]]

C19_FactorsOnce ==
  /\ pc = "start" => (allocs = 0 /\ frees = 0 /\ solves = 0)
  /\ pc \in {"loop", "solve", "test", "copy", "free"} =>
       (allocs = 1 /\ frees = 0 /\ factors = "alloc")
  /\ pc = "done" => (allocs = 1 /\ frees = 1 /\ factors = "freed")

C19_Witness ==
  pc = "done" /\ firedAt >= 1 /\ solves >= 2 /\ allocs = 1 /\ frees = 1

\* C20: at every solver invocation the row descriptor list has m entries and
\* the column descriptor list has n entries.
C20_DescriptorCounts ==
  pc = "solve" => (DOMAIN f = 0..(m - 1) /\ DOMAIN g = 0..(n - 1))

C20_Witness ==
  pc = "solve" /\ n = 2 /\ m = 1 /\ solves >= 1
    /\ DOMAIN f = 0..(m - 1) /\ DOMAIN g = 0..(n - 1)

=============================================================================
